---- MODULE Spec2Model ----
(***************************************************************************)
(* Model of airsigner/libcrypto:                                           *)
(*   types/value.go       the generic fixed-point CoinValue[D]             *)
(*   chains/eth (Eth)     the Ether binding of CoinValue                   *)
(*   chains/eth/address.go  IsValidAddress / IsSmartContractCtx            *)
(*                                                                         *)
(* big.Int objects live in a heap (address = index into `heap`), because   *)
(* CoinValue stores and hands out *big.Int pointers.  decimal.Decimal is a *)
(* value (coefficient, exponent) denoting coefficient * 10^exponent, as in *)
(* shopspring/decimal.                                                     *)
(***************************************************************************)
EXTENDS Integers, Sequences, FiniteSets, TLC

\* ---------------------------------------------------------------- bounds
MaxUnitExp == 2      \* largest UnitExp() of a modelled definition
MaxInput   == 1      \* caller-supplied integers range over -MaxInput..MaxInput
MaxHeap    == 3      \* big.Int objects allocated in one run
MaxVals    == 3      \* CoinValue objects constructed in one run
MaxCoef    == 10     \* |coefficient| of a caller-supplied decimal
MaxFrac    == 4      \* fractional digits of a caller-supplied decimal
MaxCalls   == 2      \* IsSmartContractCtx calls in one run
MaxCode    == 2      \* bytes of bytecode client.CodeAt returns

VARIABLES
    heap,     \* Seq(Int): the big.Int objects, heap[p] is the value at address p
    vals,     \* Seq([def, value]): the CoinValue objects, value is an address
    ret,      \* what the last call returned to the caller
    prev,     \* the last call before it that returned a CoinValue
    arg,      \* the decimal caller's inputs: [def, d, exp]
    apc,      \* IsSmartContractCtx: "idle", "codeAt" (request in flight), "done"
    address,  \* IsSmartContractCtx: the address argument
    netlog,   \* the addresses client.CodeAt has been called with
    mark,     \* Len(netlog) when the current IsSmartContractCtx call began
    reply,    \* what client.CodeAt returned
    aret,     \* what IsSmartContractCtx returned
    ncalls    \* IsSmartContractCtx calls made

valVars == <<heap, vals, ret, prev, arg>>

addrVars == <<apc, address, netlog, mark, reply, aret, ncalls>>

vars == <<heap, vals, ret, prev, arg, apc, address, netlog, mark, reply, aret, ncalls>>

\* ------------------------------------------------------- integer helpers
Abs(x) == IF x < 0 THEN -x ELSE x

Sign(x) == IF x < 0 THEN -1 ELSE IF x > 0 THEN 1 ELSE 0

RECURSIVE Pow10(_)
Pow10(n) == IF n <= 0 THEN 1 ELSE 10 * Pow10(n - 1)

\* big.Int.Quo: quotient truncated toward zero (y # 0)
Quo(x, y) ==
    IF Sign(x) * Sign(y) < 0 THEN -(Abs(x) \div Abs(y)) ELSE Abs(x) \div Abs(y)

\* big.Int.Rem: remainder of Quo, has the sign of x
Rem(x, y) == x - y * Quo(x, y)

\* big.Int.Div: QuoRem, then step the quotient so that the remainder is >= 0
BigDiv(x, y) ==
    LET q == Quo(x, y)
        r == Rem(x, y)
    IN  IF r < 0 THEN (IF y < 0 THEN q + 1 ELSE q - 1) ELSE q

\* ------------------------------------------------------ decimal.Decimal
Dec(v, e) == [value |-> v, exp |-> e]

\* Decimal.Mul: coefficients multiply, exponents add (exact)
DecMul(d1, d2) == Dec(d1.value * d2.value, d1.exp + d2.exp)

\* Decimal.rescale: to a larger exponent by Quo (truncating), to a smaller by Mul
Rescale(d, e) ==
    IF e > d.exp THEN Dec(Quo(d.value, Pow10(e - d.exp)), e)
    ELSE IF e < d.exp THEN Dec(d.value * Pow10(d.exp - e), e)
    ELSE d

\* a BigInt that rounds half away from zero instead of truncating
DecBigIntHalfAway(d) ==
    IF d.exp >= 0 THEN d.value * Pow10(d.exp)
    ELSE LET q == Quo(d.value, Pow10(-d.exp))
             r == Rem(d.value, Pow10(-d.exp))
         IN  IF 2 * Abs(r) >= Pow10(-d.exp) THEN q + Sign(d.value) ELSE q

\* Decimal.BigInt: the integer part, rescale(0).value
DecBigInt(d) == Rescale(d, 0).value

MinExp(d1, d2) == IF d1.exp < d2.exp THEN d1.exp ELSE d2.exp

\* Decimal.Add / Decimal.Sub: on the common (smaller) exponent
DecAdd(d1, d2) ==
    LET e == MinExp(d1, d2)
    IN  Dec(Rescale(d1, e).value + Rescale(d2, e).value, e)

DecSub(d1, d2) ==
    LET e == MinExp(d1, d2)
    IN  Dec(Rescale(d1, e).value - Rescale(d2, e).value, e)

\* Decimal.Cmp: -1, 0, 1
DecCmp(d1, d2) ==
    LET e == MinExp(d1, d2)
    IN  Sign(Rescale(d1, e).value - Rescale(d2, e).value)

DecAbs(d) == Dec(Abs(d.value), d.exp)

\* Decimal.QuoRem(d2, precision): <<q, r>> with q = trunc(d/d2) at 10^-precision
DecQuoRem(d, d2, precision) ==
    LET scale == -precision
        e     == d.exp - d2.exp - scale
        aa    == IF e < 0 THEN d.value ELSE d.value * Pow10(e)
        bb    == IF e < 0 THEN d2.value * Pow10(-e) ELSE d2.value
        rexp  == IF e < 0 THEN d.exp ELSE scale + d2.exp
    IN  <<Dec(Quo(aa, bb), scale), Dec(Rem(aa, bb), rexp)>>

\* Decimal.DivRound(d2, precision): QuoRem, then one step away from zero when
\* 2*|r|*10^precision >= |d2|
DecDivRound(d, d2, precision) ==
    LET qr == DecQuoRem(d, d2, precision)
        q  == qr[1]
        r  == qr[2]
        r2 == Dec(2 * Abs(r.value), r.exp + precision)
        c  == DecCmp(r2, DecAbs(d2))
    IN  IF c < 0 THEN q
        ELSE IF Sign(d.value) * Sign(d2.value) < 0
             THEN DecSub(q, Dec(1, -precision))
             ELSE DecAdd(q, Dec(1, -precision))

\* ------------------------------------------------------- ValueDefinition
\* A definition is the pair (CoinName(), UnitExp()).  ethDefinition is
\* ("ETH", 18); 10^18 exceeds TLC's 32-bit integers, so the generic engine is
\* checked for definitions with UnitExp() in 0..MaxUnitExp.
CoinNames == {"ETH", "BTC"}

Definitions == [name : CoinNames, unitExp : 0..MaxUnitExp]

\* the definitions the arithmetic runs use: one per coin name
ArithDefs == {[name |-> "ETH", unitExp |-> MaxUnitExp], [name |-> "BTC", unitExp |-> 0]}

CoinName(D) == D.name

UnitExp(D) == D.unitExp

\* ------------------------------------------------------------ CoinValue
Nil == 0

InputInts == (0 - MaxInput)..MaxInput

\* the receiver's fields
DefOf(a) == vals[a].def

\* CoinValue.Units: the stored pointer itself
Units(a) == vals[a].value

\* the integer a CoinValue currently denotes
UnitsValue(a) == heap[Units(a)]

\* a Same that never objects
SameAlways(a, b) == TRUE

Same(a, b) == CoinName(DefOf(a)) = CoinName(DefOf(b))

NoRet == [op |-> "none", a |-> 0, b |-> 0, k |-> 0, e |-> 0, outcome |-> "none",
          msg |-> "", r |-> 0, dec |-> Dec(0, 0), ptr |-> Nil, name |-> ""]

\* an unrecovered panic ends the program
Running == ret.outcome # "panic"

\* the caller receives r
Reply(r) ==
    /\ ret' = r
    /\ prev' = IF ret.outcome = "value" THEN ret ELSE prev

Returned(op, a, b, k, r) ==
    [NoRet EXCEPT !.op = op, !.a = a, !.b = b, !.k = k, !.outcome = "value", !.r = r]

Panicked(op, a, b, k, msg) ==
    [NoRet EXCEPT !.op = op, !.a = a, !.b = b, !.k = k, !.outcome = "panic", !.msg = msg]

\* &CoinValue[D]{def: v.def, value: new(big.Int).Op(...)}
Fresh(op, a, b, k, D, u) ==
    /\ Len(heap) < MaxHeap
    /\ Len(vals) < MaxVals
    /\ heap' = Append(heap, u)
    /\ vals' = Append(vals, [def |-> D, value |-> Len(heap) + 1])
    /\ Reply(Returned(op, a, b, k, Len(vals) + 1))

Panic(op, a, b, k, msg) ==
    /\ Reply(Panicked(op, a, b, k, msg))
    /\ UNCHANGED <<heap, vals>>

\* NewCoinValue[D](value): value is nil or a *big.Int of the caller's; h is the
\* heap at the call (the caller may have allocated the argument for the call).
\* The caller keeps the pointer it passed.
NewCoinValue(D, value, h) ==
    /\ Running
    /\ Len(vals) < MaxVals
    /\ IF value = Nil
       THEN /\ Len(h) < MaxHeap
            /\ heap' = Append(h, 0)
            /\ vals' = Append(vals, [def |-> D, value |-> Len(h) + 1])
       ELSE /\ Len(h) <= MaxHeap
            /\ heap' = h
            /\ vals' = Append(vals, [def |-> D, value |-> value])
    /\ Reply([Returned("NewCoinValue", 0, 0, 0, Len(vals) + 1) EXCEPT !.ptr = value])
    /\ UNCHANGED <<arg, addrVars>>

\* NewCoinValueFromCoins[D](value): NewCoinValue[D](nil), then cv.value is
\* replaced by value.Mul(decimal.New(1, UnitExp)).BigInt()
NewCoinValueFromCoins(D, value) ==
    /\ Running
    /\ Len(vals) < MaxVals
    /\ Len(heap) + 2 <= MaxHeap
    /\ heap' = heap \o <<0, DecBigInt(DecMul(value, Dec(1, UnitExp(D))))>>
    /\ vals' = Append(vals, [def |-> D, value |-> Len(heap) + 2])
    /\ Reply(Returned("NewCoinValueFromCoins", 0, 0, 0, Len(vals) + 1))
    /\ UNCHANGED <<arg, addrVars>>

\* NewCoinValueFromScaled[D](value, exp): as above with decimal.New(1, UnitExp-exp)
NewCoinValueFromScaled(D, value, exp) ==
    /\ Running
    /\ Len(vals) < MaxVals
    /\ Len(heap) + 2 <= MaxHeap
    /\ heap' = heap \o <<0, DecBigInt(DecMul(value, Dec(1, UnitExp(D) - exp)))>>
    /\ vals' = Append(vals, [def |-> D, value |-> Len(heap) + 2])
    /\ Reply([Returned("NewCoinValueFromScaled", 0, 0, 0, Len(vals) + 1) EXCEPT !.e = exp])
    /\ UNCHANGED <<arg, addrVars>>

\* v.Units(): hands the stored pointer to the caller
CallUnits(a) ==
    /\ Running
    /\ Reply([NoRet EXCEPT !.op = "Units", !.a = a, !.outcome = "ptr", !.ptr = Units(a)])
    /\ UNCHANGED <<heap, vals, arg, addrVars>>

\* a Coins that divides by one power of ten too many
CoinsWrongUnit(a) ==
    DecDivRound(Dec(UnitsValue(a), 0), Dec(1, UnitExp(DefOf(a)) + 1), UnitExp(DefOf(a)))

\* CoinValue.Coins
Coins(a) ==
    DecDivRound(Dec(UnitsValue(a), 0), Dec(1, UnitExp(DefOf(a))), UnitExp(DefOf(a)))

\* a ScaledValue whose rounding precision follows the requested scale
ScaledValueScalePrec(a, exp) ==
    DecDivRound(Dec(UnitsValue(a), 0), Dec(1, exp), exp)

\* CoinValue.ScaledValue
ScaledValue(a, exp) ==
    DecDivRound(Dec(UnitsValue(a), 0), Dec(1, exp), UnitExp(DefOf(a)))

CallCoins(a) ==
    /\ Running
    /\ Reply([NoRet EXCEPT !.op = "Coins", !.a = a, !.outcome = "decimal", !.dec = Coins(a)])
    /\ UNCHANGED <<heap, vals, arg, addrVars>>

CallScaledValue(a, exp) ==
    /\ Running
    /\ Reply([NoRet EXCEPT !.op = "ScaledValue", !.a = a, !.e = exp, !.outcome = "decimal",
                           !.dec = ScaledValue(a, exp)])
    /\ UNCHANGED <<heap, vals, arg, addrVars>>

CallCoinName(a) ==
    /\ Running
    /\ Reply([NoRet EXCEPT !.op = "CoinName", !.a = a, !.outcome = "string",
                           !.name = CoinName(DefOf(a))])
    /\ UNCHANGED <<heap, vals, arg, addrVars>>

\* the caller writes through the pointer it holds, e.g. p.SetInt64(i)
SetInt(i) ==
    /\ Running
    /\ ret.ptr # Nil
    /\ heap[ret.ptr] # i
    /\ heap' = [heap EXCEPT ![ret.ptr] = i]
    /\ Reply([NoRet EXCEPT !.op = "SetInt", !.k = i, !.outcome = "ptr", !.ptr = ret.ptr])
    /\ UNCHANGED <<vals, arg, addrVars>>

\* an Add that accumulates into the receiver's big.Int and returns the receiver
AddInPlace(a, b) ==
    /\ Running
    /\ IF ~Same(a, b)
       THEN Panic("Add", a, b, 0, "cannot add values of different coins")
       ELSE /\ heap' = [heap EXCEPT ![Units(a)] = UnitsValue(a) + UnitsValue(b)]
            /\ vals' = vals
            /\ Reply(Returned("Add", a, b, 0, a))
    /\ UNCHANGED <<arg, addrVars>>

Add(a, b) ==
    /\ Running
    /\ IF ~Same(a, b)
       THEN Panic("Add", a, b, 0, "cannot add values of different coins")
       ELSE Fresh("Add", a, b, 0, DefOf(a), UnitsValue(a) + UnitsValue(b))
    /\ UNCHANGED <<arg, addrVars>>

Sub(a, b) ==
    /\ Running
    /\ IF ~Same(a, b)
       THEN Panic("Sub", a, b, 0, "cannot subtract values of different coins")
       ELSE Fresh("Sub", a, b, 0, DefOf(a), UnitsValue(a) - UnitsValue(b))
    /\ UNCHANGED <<arg, addrVars>>

Mul(a, b) ==
    /\ Running
    /\ IF ~Same(a, b)
       THEN Panic("Mul", a, b, 0, "cannot multiply values of different coins")
       ELSE Fresh("Mul", a, b, 0, DefOf(a), UnitsValue(a) * UnitsValue(b))
    /\ UNCHANGED <<arg, addrVars>>

\* a Div that answers a zero divisor with a zero Amount
DivZeroYieldsZero(a, b) ==
    /\ Running
    /\ IF ~Same(a, b)
       THEN Panic("Div", a, b, 0, "cannot divide values of different coins")
       ELSE IF UnitsValue(b) = 0
            THEN Fresh("Div", a, b, 0, DefOf(a), 0)
            ELSE Fresh("Div", a, b, 0, DefOf(a), BigDiv(UnitsValue(a), UnitsValue(b)))
    /\ UNCHANGED <<arg, addrVars>>

\* big.Int.Div panics with a division-by-zero run-time error when y = 0
Div(a, b) ==
    /\ Running
    /\ IF ~Same(a, b)
       THEN Panic("Div", a, b, 0, "cannot divide values of different coins")
       ELSE IF UnitsValue(b) = 0
            THEN Panic("Div", a, b, 0, "division by zero")
            ELSE Fresh("Div", a, b, 0, DefOf(a), BigDiv(UnitsValue(a), UnitsValue(b)))
    /\ UNCHANGED <<arg, addrVars>>

\* k is the value of the caller's scalar *big.Int
MulScalar(a, k) ==
    /\ Running
    /\ Fresh("MulScalar", a, 0, k, DefOf(a), UnitsValue(a) * k)
    /\ UNCHANGED <<arg, addrVars>>

DivScalar(a, k) ==
    /\ Running
    /\ IF k = 0
       THEN Panic("DivScalar", a, 0, k, "division by zero")
       ELSE Fresh("DivScalar", a, 0, k, DefOf(a), BigDiv(UnitsValue(a), k))
    /\ UNCHANGED <<arg, addrVars>>

\* ------------------------------------------------- chains/eth/address.go
AddrHexLen == 40

HexDigits == {"0", "1", "2", "3", "4", "5", "6", "7", "8", "9",
              "a", "b", "c", "d", "e", "f", "A", "B", "C", "D", "E", "F"}

\* addrRegex.MatchString: ^0x[0-9a-fA-F]{40}$ over a sequence of characters
IsValidAddress(s) ==
    /\ Len(s) = 2 + AddrHexLen
    /\ s[1] = "0"
    /\ s[2] = "x"
    /\ \A i \in 3..Len(s) : s[i] \in HexDigits

NoReply == [kind |-> "none", err |-> "", code |-> <<>>]

NoARet == [returned |-> FALSE, result |-> FALSE, err |-> "", cause |-> ""]

\* an IsSmartContractCtx that calls client.CodeAt without the address check
IsSmartContractCtxUnchecked(addr) ==
    /\ apc \in {"idle", "done"}
    /\ address' = addr
    /\ mark' = Len(netlog)
    /\ reply' = NoReply
    /\ ncalls' = ncalls + 1
    /\ aret' = NoARet
    /\ apc' = "codeAt"
    /\ netlog' = Append(netlog, addr)
    /\ UNCHANGED valVars

\* IsSmartContractCtx up to its only blocking call: the address check, then
\* client.CodeAt is called.  IsSmartContract is the same call with
\* context.Background().
IsSmartContractCtx(addr) ==
    /\ apc \in {"idle", "done"}
    /\ address' = addr
    /\ mark' = Len(netlog)
    /\ reply' = NoReply
    /\ ncalls' = ncalls + 1
    /\ IF ~IsValidAddress(addr)
       THEN /\ aret' = [returned |-> TRUE, result |-> FALSE, err |-> "invalid address",
                        cause |-> ""]
            /\ apc' = "done"
            /\ netlog' = netlog
       ELSE /\ aret' = NoARet
            /\ apc' = "codeAt"
            /\ netlog' = Append(netlog, addr)
    /\ UNCHANGED valVars

\* client.CodeAt returns rep; IsSmartContractCtx finishes
CodeAtReturns(rep) ==
    /\ apc = "codeAt"
    /\ reply' = rep
    /\ aret' = IF rep.kind = "err"
               THEN [returned |-> TRUE, result |-> FALSE, err |-> "failed to get bytecode",
                     cause |-> rep.err]
               ELSE [returned |-> TRUE, result |-> Len(rep.code) > 0, err |-> "",
                     cause |-> ""]
    /\ apc' = "done"
    /\ UNCHANGED <<address, netlog, mark, ncalls>>
    /\ UNCHANGED valVars

\* ------------------------------------------------------------- the runs
NoArg == [def |-> [name |-> "ETH", unitExp |-> 0], d |-> Dec(0, 0), exp |-> 0]

InitAddr ==
    /\ apc = "idle"
    /\ address = <<>>
    /\ netlog = <<>>
    /\ mark = 0
    /\ reply = NoReply
    /\ aret = NoARet
    /\ ncalls = 0

InitVals ==
    /\ heap = <<>>
    /\ vals = <<>>
    /\ ret = NoRet
    /\ prev = NoRet

Init ==
    /\ InitVals
    /\ arg = NoArg
    /\ InitAddr

\* a caller doing arithmetic on the Amounts it constructs from integers
Arith ==
    \/ \E D \in ArithDefs : NewCoinValue(D, Nil, heap)
    \/ \E D \in ArithDefs, i \in InputInts : NewCoinValue(D, Len(heap) + 1, Append(heap, i))
    \/ \E a, b \in DOMAIN vals : Add(a, b)
    \/ \E a, b \in DOMAIN vals : Sub(a, b)
    \/ \E a, b \in DOMAIN vals : Mul(a, b)
    \/ \E a, b \in DOMAIN vals : Div(a, b)
    \/ \E a \in DOMAIN vals, k \in InputInts : MulScalar(a, k)
    \/ \E a \in DOMAIN vals, k \in InputInts : DivScalar(a, k)

Next == Arith

Spec == Init /\ [][Next]_vars

\* the same caller, also keeping and writing through the pointers it gets
NextShared ==
    \/ Arith
    \/ \E D \in ArithDefs : ret.ptr # Nil /\ NewCoinValue(D, ret.ptr, heap)
    \/ \E a \in DOMAIN vals : CallUnits(a)
    \/ \E i \in InputInts : SetInt(i)

SpecShared == Init /\ [][NextShared]_vars

\* a caller constructing one Amount from its inputs and reading it back
DecDefs == {D \in Definitions : CoinName(D) = "ETH"}

Decimals == [value : (0 - MaxCoef)..MaxCoef, exp : (0 - MaxFrac)..0]

ScaleExps == (0 - 1)..(MaxUnitExp + 1)

InitDecimal ==
    /\ InitVals
    /\ arg \in [def : DecDefs, d : Decimals, exp : ScaleExps]
    /\ InitAddr

NextDecimal ==
    \/ vals = <<>> /\ NewCoinValueFromCoins(arg.def, arg.d)
    \/ vals = <<>> /\ NewCoinValueFromScaled(arg.def, arg.d, arg.exp)
    \/ vals = <<>> /\ NewCoinValue(arg.def, 1, <<arg.d.value>>)
    \/ \E a \in DOMAIN vals : CallCoins(a)
    \/ \E a \in DOMAIN vals, e \in ScaleExps : CallScaledValue(a, e)
    \/ \E a \in DOMAIN vals : CallUnits(a)
    \/ \E a \in DOMAIN vals : CallCoinName(a)

SpecDecimal == InitDecimal /\ [][NextDecimal]_vars

\* a caller classifying addresses

Filled(n, c) == [i \in 1..n |-> c]

NotHex == <<"n", "o", "t", "-", "h", "e", "x">>

Addresses ==
    { <<p1, p2>> \o Filled(n, c) :
        p1 \in {"0", "1"}, p2 \in {"x", "X"},
        n \in (AddrHexLen - 1)..(AddrHexLen + 1), c \in {"a", "F", "7", "g"} }
    \cup {NotHex, <<>>, <<"0", "x">> \o Filled(AddrHexLen - 1, "a") \o <<"z">>}

ByteCodes == UNION {[1..n -> {0, 96}] : n \in 0..MaxCode}

Replies ==
    {[kind |-> "err", err |-> "rpc error", code |-> <<>>]}
    \cup {[kind |-> "code", err |-> "", code |-> c] : c \in ByteCodes}

NextAddress ==
    \/ \E addr \in Addresses : ncalls < MaxCalls /\ IsSmartContractCtx(addr)
    \/ \E rep \in Replies : CodeAtReturns(rep)

SpecAddress == Init /\ [][NextAddress]_vars

\* ============================================================ the claims
BinOps == {"Add", "Sub", "Mul", "Div"}

ArithOps == BinOps \cup {"MulScalar", "DivScalar"}

MismatchMsg(op) ==
    CASE op = "Add" -> "cannot add values of different coins"
      [] op = "Sub" -> "cannot subtract values of different coins"
      [] op = "Mul" -> "cannot multiply values of different coins"
      [] op = "Div" -> "cannot divide values of different coins"

\* the last call was a.op(b) on Amounts of different coin names
Mismatched ==
    /\ ret.op \in BinOps
    /\ CoinName(vals[ret.a].def) # CoinName(vals[ret.b].def)

\* the last call divided by zero: a.Div(b) with same-currency b of zero units,
\* or a.DivScalar(0)
ZeroDivisor ==
    \/ /\ ret.op = "Div"
       /\ CoinName(vals[ret.a].def) = CoinName(vals[ret.b].def)
       /\ heap[vals[ret.b].value] = 0
    \/ /\ ret.op = "DivScalar"
       /\ ret.k = 0

\* q is x / y truncated toward zero
IsTruncQuo(q, x, y) ==
    /\ Abs(q) * Abs(y) <= Abs(x)
    /\ Abs(x) < (Abs(q) + 1) * Abs(y)
    /\ q # 0 => Sign(q) = Sign(x) * Sign(y)

\* u is c / 10^n truncated toward zero
IsTruncOf(u, c, n) == IsTruncQuo(u, c, Pow10(n))

\* u is c / 10^n rounded to the nearest integer, ties away from zero
IsHalfAwayOf(u, c, n) ==
    /\ 2 * Abs(c) - Pow10(n) < 2 * Abs(u) * Pow10(n)
    /\ 2 * Abs(u) * Pow10(n) <= 2 * Abs(c) + Pow10(n)
    /\ u # 0 => Sign(u) = Sign(c)

\* d1 and d2 denote the same number
NumEq(d1, d2) ==
    LET m == MinExp(d1, d2)
    IN  d1.value * Pow10(d1.exp - m) = d2.value * Pow10(d2.exp - m)

\* ---- C1
\* C1 (as amended): when a and b have different coin names, a.Add(b), a.Sub(b),
\* a.Mul(b) and a.Div(b) each panic with the operation's "cannot ... values of
\* different coins" message; no Amount is returned and none is created.
C1_MismatchPanics ==
    [][ (ret'.op \in BinOps /\ CoinName(vals[ret'.a].def) # CoinName(vals[ret'.b].def))
        => /\ ret'.outcome = "panic"
           /\ ret'.msg = MismatchMsg(ret'.op)
           /\ ret'.r = 0
           /\ vals' = vals
           /\ heap' = heap ]_vars

\* C1 (as claimed): a currency mismatch is returned to the caller as a
\* recoverable MismatchedCurrency error and the process is not aborted.
C1_MismatchReturnsError == Mismatched => ret.outcome = "error"

C1_Witness == Mismatched /\ ret.op = "Div" /\ ret.outcome = "panic" /\ Len(vals) = 2

\* ---- C2
\* C2 (as amended): a.Div(b) with a same-currency b of zero units, and
\* a.DivScalar(0), panic with the division-by-zero run-time error; no Amount is
\* returned and none is created.
C2_ZeroDivisorPanics ==
    [][ (\/ /\ ret'.op = "Div"
            /\ CoinName(vals[ret'.a].def) = CoinName(vals[ret'.b].def)
            /\ heap[vals[ret'.b].value] = 0
         \/ /\ ret'.op = "DivScalar"
            /\ ret'.k = 0)
        => /\ ret'.outcome = "panic"
           /\ ret'.msg = "division by zero"
           /\ ret'.r = 0
           /\ vals' = vals
           /\ heap' = heap ]_vars

\* C2 (as claimed): a.Div(b) with a same-currency b of zero units, and
\* a.DivScalar(0), fail with a DivisionByZero error returned to the caller; the
\* process is not aborted.
C2_ZeroDivisorReturnsError == ZeroDivisor => ret.outcome = "error"

C2_Witness ==
    /\ ZeroDivisor
    /\ ret.op = "Div"
    /\ ret.outcome = "panic"
    /\ UnitsValue(ret.a) # 0
    /\ ret.a # ret.b

\* ---- C3
\* C3: a successful Div or DivScalar returns an Amount whose units is the
\* quotient of the operands' units truncated toward zero.
C3_DivTruncates ==
    /\ (ret.op = "Div" /\ ret.outcome = "value")
       => IsTruncQuo(UnitsValue(ret.r), UnitsValue(ret.a), UnitsValue(ret.b))
    /\ (ret.op = "DivScalar" /\ ret.outcome = "value")
       => IsTruncQuo(UnitsValue(ret.r), UnitsValue(ret.a), ret.k)

\* ---- C4
\* the last call constructed an Amount from the decimal arg.d, multiplying by
\* 10^ConstructedShift
Constructed == ret.op \in {"NewCoinValueFromCoins", "NewCoinValueFromScaled"}

ConstructedShift ==
    IF ret.op = "NewCoinValueFromCoins"
    THEN arg.d.exp + UnitExp(arg.def)
    ELSE arg.d.exp + UnitExp(arg.def) - arg.exp

\* C4 (as amended): fromCoins(d).units() is d * 10^unitExponent truncated toward
\* zero, and fromScaled(d, scaleExp).units() is d * 10^(unitExponent - scaleExp)
\* truncated toward zero.
C4_ConstructionTruncates ==
    Constructed =>
        IF ConstructedShift >= 0
        THEN UnitsValue(ret.r) = arg.d.value * Pow10(ConstructedShift)
        ELSE IsTruncOf(UnitsValue(ret.r), arg.d.value, -ConstructedShift)

\* C4 (as claimed): the product is rounded to the nearest integer, ties away
\* from zero.
C4_ConstructionRoundsHalfAway ==
    Constructed =>
        IF ConstructedShift >= 0
        THEN UnitsValue(ret.r) = arg.d.value * Pow10(ConstructedShift)
        ELSE IsHalfAwayOf(UnitsValue(ret.r), arg.d.value, -ConstructedShift)

\* fromCoins(-0.6) for a definition with unitExponent 0 has units 0
C4_Witness ==
    /\ ret.op = "NewCoinValueFromCoins"
    /\ arg.d = Dec(-6, -1)
    /\ UnitExp(arg.def) = 0
    /\ UnitsValue(ret.r) = 0

\* ---- C5
\* d * 10^U is an integer
Representable(d, U) ==
    \/ d.exp + U >= 0
    \/ Abs(d.value) % Pow10(-(d.exp + U)) = 0

\* the last call read back the Amount that op constructed
ReadBack(read, op) ==
    /\ ret.op = read
    /\ prev.op = op
    /\ ret.a = prev.r

\* C5: for a non-negative decimal d with at most unitExponent fractional
\* digits, fromCoins(d).coins() equals d.
C5_CoinsRoundTrip ==
    (/\ ReadBack("Coins", "NewCoinValueFromCoins")
     /\ arg.d.value >= 0
     /\ Representable(arg.d, UnitExp(arg.def)))
    => NumEq(ret.dec, arg.d)

\* fromCoins(0.5).coins() for unitExponent 2: units 50, coins 0.50
C5_Witness ==
    /\ ReadBack("Coins", "NewCoinValueFromCoins")
    /\ arg.d = Dec(5, -1)
    /\ UnitExp(arg.def) = 2
    /\ UnitsValue(ret.a) = 50
    /\ ret.dec = Dec(50, -2)

\* ---- C6
\* C6: for 0 <= scaleExp <= unitExponent, fromScaled(d, scaleExp)
\* .scaledValue(scaleExp) differs from d by at most 10^-unitExponent.
C6_ScaleConsistency ==
    (/\ ReadBack("ScaledValue", "NewCoinValueFromScaled")
     /\ ret.e = arg.exp
     /\ 0 <= arg.exp
     /\ arg.exp <= UnitExp(arg.def))
    => LET m == MinExp(ret.dec, arg.d)
       IN  Abs(ret.dec.value * Pow10(ret.dec.exp - m) - arg.d.value * Pow10(arg.d.exp - m))
             <= Pow10(-UnitExp(arg.def) - m)

\* ---- C7
\* C7: scaledValue(scaleExp) is units / 10^scaleExp rounded (half away from
\* zero) to exactly unitExponent decimal places, whatever scaleExp is, and
\* coins() is scaledValue(unitExponent).
C7_ScaledValuePrecision ==
    /\ ret.op = "ScaledValue" =>
         LET U == UnitExp(vals[ret.a].def)
             u == UnitsValue(ret.a)
         IN  /\ ret.dec.exp = -U
             /\ IF ret.e <= U
                THEN ret.dec.value = u * Pow10(U - ret.e)
                ELSE IsHalfAwayOf(ret.dec.value, u, ret.e - U)
    /\ ret.op = "Coins" =>
         /\ ret.dec = ScaledValue(ret.a, UnitExp(vals[ret.a].def))
         /\ ret.dec = Dec(UnitsValue(ret.a), -UnitExp(vals[ret.a].def))

\* fromUnits(10).scaledValue(1) == 1 for unitExponent 2: the scenario
\* fromUnits(10^9).scaledValue(9) == 1 for unitExponent 18, with the exponents
\* scaled down to TLC's integers
C7_Witness ==
    /\ ReadBack("ScaledValue", "NewCoinValue")
    /\ UnitExp(vals[ret.a].def) = 2
    /\ UnitsValue(ret.a) = 10
    /\ ret.e = 1
    /\ ret.dec = Dec(100, -2)
    /\ NumEq(ret.dec, Dec(1, 0))

\* ---- C8
\* a.add(b).sub(b) has the units of a
AddThenSub ==
    (/\ ret.op = "Sub"
     /\ ret.outcome = "value"
     /\ prev.op = "Add"
     /\ ret.a = prev.r
     /\ ret.b = prev.b)
    => UnitsValue(ret.r) = UnitsValue(prev.a)

\* C8: an arithmetic operation that succeeds returns a new Amount, distinct from
\* both operands and with a big.Int of its own, leaves every existing Amount and
\* big.Int as it was, and gives the result the receiver's definition; and
\* a.add(b).sub(b).units() == a.units().
C8_ArithmeticFrame ==
    [][ (ret'.op \in ArithOps /\ ret'.outcome = "value")
        => /\ Len(vals') = Len(vals) + 1
           /\ ret'.r = Len(vals')
           /\ ret'.r # ret'.a
           /\ ret'.r # ret'.b
           /\ \A v \in DOMAIN vals : vals'[v] = vals[v]
           /\ \A p \in DOMAIN heap : heap'[p] = heap[p]
           /\ vals'[ret'.r].value \notin DOMAIN heap
           /\ vals'[ret'.r].def = vals[ret'.a].def
           /\ CoinName(vals'[ret'.r].def) = CoinName(vals'[ret'.a].def)
           /\ AddThenSub' ]_vars

C8_Witness ==
    /\ ret.op = "Sub"
    /\ ret.outcome = "value"
    /\ prev.op = "Add"
    /\ ret.a = prev.r
    /\ ret.b = prev.b
    /\ UnitsValue(prev.a) = 1
    /\ UnitsValue(ret.a) = 2
    /\ UnitsValue(ret.r) = 1

\* ---- C9
\* C9: IsSmartContractCtx with an address IsValidAddress rejects returns
\* (false, "invalid address") without calling client.CodeAt; client.CodeAt is
\* only ever called with an address IsValidAddress accepts; a CodeAt error is
\* returned wrapped with result false; otherwise the result is true iff the
\* bytecode is non-empty.
C9_CodeAtOnlyAfterValidAddress ==
    /\ \A i \in DOMAIN netlog : IsValidAddress(netlog[i])
    /\ apc = "codeAt" =>
         /\ IsValidAddress(address)
         /\ Len(netlog) = mark + 1
         /\ netlog[Len(netlog)] = address
         /\ ~aret.returned
    /\ (apc = "done" /\ ~IsValidAddress(address)) =>
         /\ aret = [returned |-> TRUE, result |-> FALSE, err |-> "invalid address",
                    cause |-> ""]
         /\ Len(netlog) = mark
         /\ reply = NoReply
    /\ (apc = "done" /\ IsValidAddress(address)) =>
         /\ Len(netlog) = mark + 1
         /\ reply.kind \in {"err", "code"}
         /\ reply.kind = "err" =>
              aret = [returned |-> TRUE, result |-> FALSE,
                      err |-> "failed to get bytecode", cause |-> reply.err]
         /\ reply.kind = "code" =>
              aret = [returned |-> TRUE, result |-> (Len(reply.code) > 0), err |-> "",
                      cause |-> ""]

\* "0x" + 39 hex digits is rejected after an earlier call reached client.CodeAt
C9_Witness ==
    /\ apc = "done"
    /\ address = <<"0", "x">> \o Filled(AddrHexLen - 1, "a")
    /\ ~IsValidAddress(address)
    /\ aret.err = "invalid address"
    /\ Len(netlog) = 1
    /\ mark = 1

\* ---- C10
\* C10: once an Amount is constructed its units never change, whatever any
\* holder of the Amount, of the integer passed to fromUnits or of the integer
\* returned by units() does.
C10_UnitsNeverChange ==
    [][ \A v \in DOMAIN vals : heap'[vals'[v].value] = heap[vals[v].value] ]_vars

====
